---- MODULE Spec2Model ----
(***************************************************************************)
(* Student-Grade-Management-System: the Express/Mongoose server of         *)
(* src/index.js (final variant, lines 271-676).                            *)
(*                                                                         *)
(* Conventions of the model                                                *)
(*  - a JavaScript value is a record [t, n, s]: t = "u" undefined,          *)
(*    "n" a finite number n, "nan" NaN, "s" a string whose characters are   *)
(*    the sequence s;                                                       *)
(*  - marks are whole numbers; a percentage is held in hundredths           *)
(*    (7500 stands for 75.00), which is exact for a value with two          *)
(*    decimals;                                                             *)
(*  - a spreadsheet row is a function from header names to JavaScript       *)
(*    values, an absent column being undefined (sheet_to_json omits empty   *)
(*    cells);                                                               *)
(*  - an ObjectId is the pair <<time, counter>> it is generated from.       *)
(***************************************************************************)
EXTENDS Integers, Sequences, FiniteSets, TLC

\* ------------------------------------------------------------------------
\* Bounds of the model
\* ------------------------------------------------------------------------
MaxRows == 2

MaxUploads == 2

\* Uploads served one after the other where the upload history is listed.
MaxHistory == 11

\* ------------------------------------------------------------------------
\* JavaScript values
\* ------------------------------------------------------------------------
Undefined == [t |-> "u", n |-> 0, s |-> <<>>]

NaN == [t |-> "nan", n |-> 0, s |-> <<>>]

Num(k) == [t |-> "n", n |-> k, s |-> <<>>]

Str(chars) == [t |-> "s", n |-> 0, s |-> chars]

\* !v of JavaScript is ~Truthy(v): undefined, 0, NaN and "" are falsy.
Truthy(v) ==
  \/ v.t = "n" /\ v.n # 0
  \/ v.t = "s" /\ v.s # <<>>

\* a || b
Or(a, b) == IF Truthy(a) THEN a ELSE b

isNaN(v) == v.t = "nan"

DigitChars == <<"0", "1", "2", "3", "4", "5", "6", "7", "8", "9">>

IsDigit(c) == \E i \in 1..10 : DigitChars[i] = c

DigitVal(c) == (CHOOSE i \in 1..10 : DigitChars[i] = c) - 1

\* The number of leading decimal digits of the character sequence cs.
RECURSIVE DigitPrefixLen(_)
DigitPrefixLen(cs) ==
  IF cs = <<>> \/ ~IsDigit(Head(cs)) THEN 0 ELSE 1 + DigitPrefixLen(Tail(cs))

\* The value of the first k characters of cs, all digits, read in base ten.
RECURSIVE DigitsValue(_, _)
DigitsValue(cs, k) ==
  IF k = 0 THEN 0 ELSE 10 * DigitsValue(cs, k - 1) + DigitVal(cs[k])

\* parseFloat of a string: an optional sign and the longest prefix of
\* digits; what follows is ignored; no digit at all gives NaN.
ParseFloatChars(cs) ==
  LET neg  == cs # <<>> /\ Head(cs) = "-"
      body == IF neg THEN Tail(cs) ELSE cs
      k    == DigitPrefixLen(body)
  IN  IF k = 0 THEN NaN
      ELSE Num((IF neg THEN -1 ELSE 1) * DigitsValue(body, k))

\* parseFloat(v): v is first converted to a string, which gives a number
\* back for a number and NaN for undefined ("undefined") and NaN ("NaN").
parseFloat(v) ==
  CASE v.t = "n"   -> v
    [] v.t = "s"   -> ParseFloatChars(v.s)
    [] OTHER       -> NaN

\* The decimal digits of k >= 0.
RECURSIVE DigitsOf(_)
DigitsOf(k) ==
  IF k < 10 THEN <<DigitChars[k + 1]>>
  ELSE DigitsOf(k \div 10) \o <<DigitChars[(k % 10) + 1]>>

\* String(v)
String(v) ==
  CASE v.t = "s"   -> v.s
    [] v.t = "n"   -> IF v.n < 0 THEN <<"-">> \o DigitsOf(-v.n) ELSE DigitsOf(v.n)
    [] v.t = "nan" -> <<"N", "a", "N">>
    [] OTHER       -> <<"u", "n", "d", "e", "f", "i", "n", "e", "d">>

Abs(k) == IF k < 0 THEN -k ELSE k

\* A slip of ToFixed2: the digits after the second decimal are cut off.
ToFixed2_truncate(obtained, total) ==
  LET q == (Abs(obtained) * 10000) \div Abs(total)
  IN  IF (obtained < 0) # (total < 0) THEN -q ELSE q

\* parseFloat(((obtained / total) * 100).toFixed(2)) in hundredths, for
\* total # 0: toFixed rounds the magnitude to the nearest hundredth, the
\* larger one on a tie, and keeps the sign.
ToFixed2(obtained, total) ==
  LET a == Abs(obtained) * 10000
      b == Abs(total)
      q == (2 * a + b) \div (2 * b)
  IN  IF (obtained < 0) # (total < 0) THEN -q ELSE q


\* ------------------------------------------------------------------------
\* Row processing of the upload handler (src/index.js 402-434)
\* ------------------------------------------------------------------------
IdAliases == <<"Student_ID", "student_id", "StudentID", "ID">>

NameAliases == <<"Student_Name", "student_name", "StudentName", "Name">>

TotalAliases == <<"Total_Marks", "total_marks", "TotalMarks", "MaxMarks">>

ObtainedAliases == <<"Marks_Obtained", "marks_obtained", "MarksObtained", "ObtainedMarks">>

Headers ==
  {IdAliases[i] : i \in 1..4} \cup {NameAliases[i] : i \in 1..4}
  \cup {TotalAliases[i] : i \in 1..4} \cup {ObtainedAliases[i] : i \in 1..4}
  \cup {"Percentage"}

\* row.A || row.B || row.C || row.D
Pick(row, aliases) ==
  Or(Or(Or(row[aliases[1]], row[aliases[2]]), row[aliases[3]]), row[aliases[4]])

NoStudent ==
  [student_id |-> <<>>, student_name |-> <<>>, total_marks |-> 0,
   marks_obtained |-> 0, percentage |-> 0]

Thrown(message, index) ==
  [ok |-> FALSE, error |-> message, row |-> index, student |-> NoStudent]

\* A slip of InvalidMarks: the test of the sign of the total is left out.
InvalidMarks_anySign(total, obtained) == isNaN(total) \/ isNaN(obtained)

\* isNaN(total) || isNaN(obtained) || total <= 0
InvalidMarks(total, obtained) == isNaN(total) \/ isNaN(obtained) \/ total.n <= 0

\* The callback of jsonData.map: the student object of one row, or the
\* Error it throws (index is 0-based, the message names index + 1).
ProcessRow(row, index) ==
  LET studentId     == Pick(row, IdAliases)
      studentName   == Pick(row, NameAliases)
      totalMarks    == Pick(row, TotalAliases)
      marksObtained == Pick(row, ObtainedAliases)
      total         == parseFloat(totalMarks)
      obtained      == parseFloat(marksObtained)
  IN  IF \/ ~Truthy(studentId) \/ ~Truthy(studentName)
         \/ totalMarks = Undefined \/ marksObtained = Undefined
      THEN Thrown("Missing required data", index + 1)
      ELSE IF InvalidMarks(total, obtained)
      THEN Thrown("Invalid marks data", index + 1)
      ELSE [ok |-> TRUE, error |-> "", row |-> 0,
            student |-> [student_id     |-> String(studentId),
                         student_name   |-> String(studentName),
                         total_marks    |-> total.n,
                         marks_obtained |-> obtained.n,
                         percentage     |-> ToFixed2(obtained.n, total.n)]]

\* A slip of Min: the last one.
Min_last(S) == CHOOSE x \in S : \A y \in S : x >= y

Min(S) == CHOOSE x \in S : \A y \in S : x <= y

\* A slip of ProcessRows: a row that throws is left out and the others go on.
ProcessRows_skipInvalid(jsonData) ==
  LET results == [i \in 1..Len(jsonData) |-> ProcessRow(jsonData[i], i - 1)]
      good    == SelectSeq(results, LAMBDA r : r.ok)
  IN  [ok |-> TRUE, error |-> "", row |-> 0,
       students |-> [i \in 1..Len(good) |-> good[i].student]]

\* jsonData.map(...): rows are processed in order and the first throw
\* ends the map; otherwise the array of student objects.
ProcessRows(jsonData) ==
  LET results == [i \in 1..Len(jsonData) |-> ProcessRow(jsonData[i], i - 1)]
      failed  == {i \in 1..Len(jsonData) : ~results[i].ok}
  IN  IF failed = {}
      THEN [ok |-> TRUE, error |-> "", row |-> 0,
            students |-> [i \in 1..Len(jsonData) |-> results[i].student]]
      ELSE [ok |-> FALSE, error |-> results[Min(failed)].error,
            row |-> results[Min(failed)].row, students |-> <<>>]

\* ------------------------------------------------------------------------
\* The Student and UploadHistory collections (Mongoose models)
\* ------------------------------------------------------------------------
\* new Student(obj): _id is a fresh ObjectId, created_at defaults to Date.now.
studentSchema(obj, now, counter) ==
  [id             |-> <<now, counter>>,
   student_id     |-> obj.student_id,
   student_name   |-> obj.student_name,
   total_marks    |-> obj.total_marks,
   marks_obtained |-> obj.marks_obtained,
   percentage     |-> obj.percentage,
   created_at     |-> now]

uploadHistorySchema(filename, count, now) ==
  [filename |-> filename, students_count |-> count, uploaded_at |-> now]

\* A slip of insertMany: the unique index on student_id is not there.
RECURSIVE insertMany_noIndex(_, _, _, _)
insertMany_noIndex(coll, docs, now, i) ==
  IF i > Len(docs) THEN [ok |-> TRUE, coll |-> coll]
  ELSE insertMany_noIndex(Append(coll, studentSchema(docs[i], now, i)), docs, now, i + 1)

\* Student.insertMany(docs), an ordered bulk insert: the documents are
\* written one after the other, the first one whose student_id is already
\* in the collection (unique index) ends the call with an error, and the
\* documents written before it stay.
RECURSIVE insertMany(_, _, _, _)
insertMany(coll, docs, now, i) ==
  IF i > Len(docs) THEN [ok |-> TRUE, coll |-> coll]
  ELSE IF \E j \in 1..Len(coll) : coll[j].student_id = docs[i].student_id
  THEN [ok |-> FALSE, coll |-> coll]
  ELSE insertMany(Append(coll, studentSchema(docs[i], now, i)), docs, now, i + 1)


\* A slip of deleteMany: nothing is removed.
deleteMany_keep(coll) == coll

\* A slip of deleteMany: deleteOne, which removes the first document only.
deleteMany_one(coll) == IF coll = <<>> THEN <<>> ELSE Tail(coll)

\* Student.deleteMany({})
deleteMany(coll) == <<>>

\* A slip of save: the new entry takes the place of the stored ones.
save_replace(coll, doc) == <<doc>>

\* uploadRecord.save(): the entry is added to the collection.
save(coll, doc) == Append(coll, doc)

\* Student.find().sort({created_at: -1}): the documents by created_at,
\* latest first. The documents of one batch have one created_at and no
\* order among them is promised: every such order is a possible answer.
find(coll) ==
  {s \in [1..Len(coll) -> {coll[j] : j \in 1..Len(coll)}] :
     /\ \A i, j \in 1..Len(coll) : i # j => s[i] # s[j]
     /\ \A i, j \in 1..Len(coll) : i < j => s[i].created_at >= s[j].created_at}

\* One step of sort: e is put in front of the first entry that is older.
RECURSIVE insertByUploadedAt(_, _)
insertByUploadedAt(sorted, e) ==
  IF sorted = <<>> THEN <<e>>
  ELSE IF e.uploaded_at > Head(sorted).uploaded_at THEN <<e>> \o sorted
  ELSE <<Head(sorted)>> \o insertByUploadedAt(Tail(sorted), e)

\* .sort({uploaded_at: -1})
RECURSIVE sort(_)
sort(coll) ==
  IF coll = <<>> THEN <<>>
  ELSE insertByUploadedAt(sort(SubSeq(coll, 1, Len(coll) - 1)), coll[Len(coll)])

\* A slip of limit: every entry is returned.
limit_all(coll, n) == coll

\* .limit(n)
limit(coll, n) == SubSeq(coll, 1, IF Len(coll) < n THEN Len(coll) ELSE n)

\* The number of entries GET /api/upload-history returns at most.
HistoryLimit == 10

\* Student.countDocuments({percentage: {$gte: 40}})
countPassed(coll) == Cardinality({j \in 1..Len(coll) : coll[j].percentage >= 4000})

RECURSIVE sumPercentage(_)
sumPercentage(coll) ==
  IF coll = <<>> THEN 0 ELSE Head(coll).percentage + sumPercentage(Tail(coll))

\* Student.findOne().sort({percentage: -1}): the documents of the highest
\* percentage, any one of which may be the answer.
topPerformers(coll) ==
  {coll[j] : j \in {k \in 1..Len(coll) :
                      \A m \in 1..Len(coll) : coll[m].percentage <= coll[k].percentage}}

\* A slip of findByIdAndUpdate: the filter is lost and the first document
\* of a collection that has the id is the one updated.
findByIdAndUpdate_first(coll, oid, update) ==
  LET hit == {j \in 1..Len(coll) : coll[j].id = oid}
  IN  IF hit = {} THEN [found |-> FALSE, coll |-> coll, doc |-> <<>>]
      ELSE LET new == [coll[1] EXCEPT !.student_name   = update.student_name,
                                      !.total_marks    = update.total_marks,
                                      !.marks_obtained = update.marks_obtained,
                                      !.percentage     = update.percentage]
           IN  [found |-> TRUE, coll |-> [coll EXCEPT ![1] = new], doc |-> <<new>>]

\* Student.findByIdAndUpdate(id, update, {new: true, runValidators: true}):
\* the document whose _id is id gets the fields of update; none found
\* leaves the collection as it is.
findByIdAndUpdate(coll, oid, update) ==
  LET hit == {j \in 1..Len(coll) : coll[j].id = oid}
  IN  IF hit = {} THEN [found |-> FALSE, coll |-> coll, doc |-> <<>>]
      ELSE LET j   == CHOOSE k \in hit : TRUE
               new == [coll[j] EXCEPT !.student_name   = update.student_name,
                                      !.total_marks    = update.total_marks,
                                      !.marks_obtained = update.marks_obtained,
                                      !.percentage     = update.percentage]
           IN  [found |-> TRUE, coll |-> [coll EXCEPT ![j] = new], doc |-> <<new>>]

\* Student.findByIdAndDelete(id)
findByIdAndDelete(coll, oid) ==
  LET hit == {j \in 1..Len(coll) : coll[j].id = oid}
  IN  IF hit = {} THEN [found |-> FALSE, coll |-> coll, doc |-> <<>>]
      ELSE LET j == CHOOSE k \in hit : TRUE
           IN  [found |-> TRUE,
                coll  |-> SubSeq(coll, 1, j - 1) \o SubSeq(coll, j + 1, Len(coll)),
                doc   |-> <<coll[j]>>]

\* ------------------------------------------------------------------------
\* Requests and responses
\* ------------------------------------------------------------------------
\* req.file of multer: absent, unreadable by XLSX.read, or a sheet of rows.
Xlsx == "application/vnd.openxmlformats-officedocument.spreadsheetml.sheet"

\* file.mimetype: the media type the client declares for a file of that
\* name.
mimetype(name) ==
  CASE name = "grades.xlsx" -> Xlsx
    [] name = "marks.csv"   -> "text/csv"
    [] name = "grades.xls"  -> "application/vnd.ms-excel"
    [] OTHER                -> "application/pdf"

NoFile == [kind |-> "none", rows |-> <<>>, originalname |-> "", mimetype |-> ""]

CorruptFile(name) ==
  [kind |-> "corrupt", rows |-> <<>>, originalname |-> name, mimetype |-> mimetype(name)]

Sheet(rows, name) ==
  [kind |-> "sheet", rows |-> rows, originalname |-> name, mimetype |-> mimetype(name)]

\* A slip of fileFilter: every media type is let through.
fileFilter_any(file) == TRUE

\* The fileFilter of multer (src/index.js 327-335); a request without a
\* file part is not filtered.
fileFilter(file) ==
  \/ file.kind = "none"
  \/ file.mimetype \in {Xlsx, "text/csv", "application/vnd.ms-excel"}

\* The id of a request body: absent, the hexadecimal form of an ObjectId,
\* or a string that is not the form of an ObjectId.
NoId == [t |-> "u", oid |-> <<0, 0>>]

ObjectId(x) == [t |-> "oid", oid |-> x]

NotAnObjectId == [t |-> "s", oid |-> <<0, 0>>]

NoBody ==
  [id |-> NoId, student_name |-> Undefined, total_marks |-> Undefined,
   marks_obtained |-> Undefined, percentage |-> Undefined]

NoReq == [op |-> "none", file |-> NoFile, body |-> NoBody]

\* The state of App (src/frontend/src/App.jsx 9-12) before the first
\* fetch: no students, no student being edited.
NoApp == [students |-> <<>>, editingStudent |-> <<>>]

\* The body of the answer of GET /api/stats.
NoStats ==
  [totalStudents |-> 0, averagePercentage |-> 0, passCount |-> 0,
   failCount |-> 0, passPercentage |-> 0, topPerformer |-> <<>>]

NoRes ==
  [status |-> 0, error |-> "", row |-> 0, studentsCount |-> 0,
   filename |-> "", body |-> <<>>, history |-> <<>>, stats |-> NoStats]

\* res.status(code).json({error: ...})
Fail(code, message) == [NoRes EXCEPT !.status = code, !.error = message]

\* ------------------------------------------------------------------------
\* State
\* ------------------------------------------------------------------------
VARIABLES
  Student,        \* the students collection, in insertion order
  UploadHistory,  \* the upload-history collection, in insertion order
  clock,          \* Date.now(), one tick per upload that reaches the store
  req,            \* the request being served, NoReq when there is none
  res,            \* the response of the request being served, NoRes before it
  tasks,          \* the requests in flight where requests overlap, else <<>>
  App             \* the state of the dashboard's App component

vars == <<Student, UploadHistory, clock, req, res, tasks, App>>

Init ==
  /\ Student = <<>>
  /\ UploadHistory = <<>>
  /\ clock = 0
  /\ req = NoReq
  /\ res = NoRes
  /\ tasks = <<>>
  /\ App = NoApp

Idle == req = NoReq /\ res = NoRes

Pending(op) == req.op = op /\ res = NoRes

\* ------------------------------------------------------------------------
\* POST /api/upload (src/index.js 370-464)
\* ------------------------------------------------------------------------
\* What an awaited store call of the upload handler may reject with.
UploadFaults == {"none", "deleteMany", "insertMany", "save"}

ReceiveUpload(files) ==
  /\ Idle
  /\ UNCHANGED <<tasks, App>>
  /\ clock < MaxUploads
  /\ \E f \in files :
       /\ fileFilter(f)
       /\ req' = [NoReq EXCEPT !.op = "upload", !.file = f]
  /\ UNCHANGED <<Student, UploadHistory, clock, res>>

\* upload.single('file') with a file that the fileFilter refuses: the
\* Error goes to the global error handler (src/index.js 632-643), which
\* answers 500 as it is no MulterError; the handler of the route is not
\* run.
RejectUpload(files) ==
  /\ Idle
  /\ UNCHANGED <<tasks, App>>
  /\ \E f \in files :
       /\ ~fileFilter(f)
       /\ req' = [NoReq EXCEPT !.op = "upload", !.file = f]
  /\ res' = Fail(500, "Internal server error")
  /\ UNCHANGED <<Student, UploadHistory, clock>>

\* A slip of Persist: the history entry is saved before the bulk insert.
Persist_saveFirst(students, fault) ==
  LET now      == clock + 1
      inserted == insertMany(deleteMany(Student), students, now, 1)
      entry    == uploadHistorySchema(req.file.originalname, Len(students), now)
  IN  /\ clock' = now
      /\ IF fault = "deleteMany"
         THEN /\ res' = Fail(500, "deleteMany failed")
              /\ UNCHANGED <<Student, UploadHistory>>
         ELSE IF fault = "save"
         THEN /\ Student' = deleteMany(Student)
              /\ res' = Fail(500, "save failed")
              /\ UNCHANGED UploadHistory
         ELSE /\ UploadHistory' = save(UploadHistory, entry)
              /\ Student' = IF fault = "insertMany" THEN deleteMany(Student)
                                                    ELSE inserted.coll
              /\ res' = IF fault = "insertMany" THEN Fail(500, "insertMany failed")
                        ELSE IF ~inserted.ok THEN Fail(500, "E11000 duplicate key")
                        ELSE [NoRes EXCEPT !.status = 200,
                                           !.studentsCount = Len(students),
                                           !.filename = req.file.originalname]

\* The handler after the rows were processed: deleteMany, insertMany,
\* uploadRecord.save and the answer. A rejection of an awaited call ends
\* in the catch block, which answers 500 with the message of the error.
Persist(students, fault) ==
  LET now      == clock + 1
      inserted == insertMany(deleteMany(Student), students, now, 1)
  IN  /\ clock' = now
      /\ IF fault = "deleteMany"
         THEN /\ res' = Fail(500, "deleteMany failed")
              /\ UNCHANGED <<Student, UploadHistory>>
         ELSE IF fault = "insertMany"
         THEN /\ Student' = deleteMany(Student)
              /\ res' = Fail(500, "insertMany failed")
              /\ UNCHANGED UploadHistory
         ELSE IF ~inserted.ok
         THEN /\ Student' = inserted.coll
              /\ res' = Fail(500, "E11000 duplicate key")
              /\ UNCHANGED UploadHistory
         ELSE IF fault = "save"
         THEN /\ Student' = inserted.coll
              /\ res' = Fail(500, "save failed")
              /\ UNCHANGED UploadHistory
         ELSE /\ Student' = inserted.coll
              /\ UploadHistory' = save(UploadHistory,
                   uploadHistorySchema(req.file.originalname, Len(students), now))
              /\ res' = [NoRes EXCEPT !.status = 200,
                                      !.studentsCount = Len(students),
                                      !.filename = req.file.originalname]

\* A slip of EmptySheet: the test of the length is left out.
EmptySheet_never(jsonData) == FALSE

\* jsonData.length === 0
EmptySheet(jsonData) == Len(jsonData) = 0

Upload ==
  /\ Pending("upload")
  /\ UNCHANGED <<tasks, App>>
  /\ UNCHANGED req
  /\ IF req.file.kind = "none"
     THEN /\ res' = Fail(400, "No file uploaded")
          /\ UNCHANGED <<Student, UploadHistory, clock>>
     ELSE IF req.file.kind = "corrupt"
     THEN /\ res' = Fail(400, "Invalid file format")
          /\ UNCHANGED <<Student, UploadHistory, clock>>
     ELSE IF EmptySheet(req.file.rows)
     THEN /\ res' = Fail(400, "File is empty")
          /\ UNCHANGED <<Student, UploadHistory, clock>>
     ELSE LET processed == ProcessRows(req.file.rows)
          IN  IF ~processed.ok
              THEN /\ res' = [Fail(500, processed.error) EXCEPT !.row = processed.row]
                   /\ UNCHANGED <<Student, UploadHistory, clock>>
              ELSE \E fault \in UploadFaults : Persist(processed.students, fault)


\* ------------------------------------------------------------------------
\* POST /api/students/update (src/index.js 478-519)
\* ------------------------------------------------------------------------
\* A slip of RequiredMissing: the test of the name is left out.
RequiredMissing_anyName(student_name, total_marks, marks_obtained) ==
  ~Truthy(total_marks) \/ marks_obtained = Undefined

\* !student_name || !total_marks || marks_obtained === undefined
RequiredMissing(student_name, total_marks, marks_obtained) ==
  ~Truthy(student_name) \/ ~Truthy(total_marks) \/ marks_obtained = Undefined

ReceiveUpdate(bodies) ==
  /\ Idle
  /\ UNCHANGED <<tasks, App>>
  /\ \E b \in bodies : req' = [NoReq EXCEPT !.op = "update", !.body = b]
  /\ UNCHANGED <<Student, UploadHistory, clock, res>>

UpdateStudent ==
  LET id             == req.body.id
      student_name   == req.body.student_name
      total_marks    == req.body.total_marks
      marks_obtained == req.body.marks_obtained
      total          == parseFloat(total_marks)
      obtained       == parseFloat(marks_obtained)
  IN
  /\ Pending("update")
  /\ UNCHANGED <<tasks, App>>
  /\ UNCHANGED <<req, UploadHistory, clock>>
  /\ IF id.t = "u"
     THEN /\ res' = Fail(400, "Student ID is required")
          /\ UNCHANGED Student
     ELSE IF RequiredMissing(student_name, total_marks, marks_obtained)
     THEN /\ res' = Fail(400, "All fields are required")
          /\ UNCHANGED Student
     ELSE IF InvalidMarks(total, obtained)
     THEN /\ res' = Fail(400, "Invalid marks data")
          /\ UNCHANGED Student
     ELSE \* an id that cannot be cast to an ObjectId rejects the awaited
          \* call with a CastError, which the catch block answers
          IF id.t # "oid"
          THEN /\ res' = Fail(500, "Failed to update student")
               /\ UNCHANGED Student
          ELSE LET updated == findByIdAndUpdate(Student, id.oid,
                                [student_name   |-> String(student_name),
                                 total_marks    |-> total.n,
                                 marks_obtained |-> obtained.n,
                                 percentage     |-> ToFixed2(obtained.n, total.n)])
               IN  IF ~updated.found
                   THEN /\ res' = Fail(404, "Student not found")
                        /\ UNCHANGED Student
                   ELSE /\ res' = [NoRes EXCEPT !.status = 200, !.body = updated.doc]
                        /\ Student' = updated.coll

\* ------------------------------------------------------------------------
\* POST /api/students/delete (src/index.js 522-547)
\* ------------------------------------------------------------------------
ReceiveDelete(ids) ==
  /\ Idle
  /\ UNCHANGED <<tasks, App>>
  /\ \E i \in ids : req' = [NoReq EXCEPT !.op = "delete", !.body = [NoBody EXCEPT !.id = i]]
  /\ UNCHANGED <<Student, UploadHistory, clock, res>>

DeleteStudent ==
  LET id == req.body.id
  IN
  /\ Pending("delete")
  /\ UNCHANGED <<tasks, App>>
  /\ UNCHANGED <<req, UploadHistory, clock>>
  /\ IF id.t = "u"
     THEN /\ res' = Fail(400, "Student ID is required")
          /\ UNCHANGED Student
     ELSE IF id.t # "oid"
          THEN /\ res' = Fail(500, "Failed to delete student")
               /\ UNCHANGED Student
          ELSE LET deleted == findByIdAndDelete(Student, id.oid)
               IN  IF ~deleted.found
                   THEN /\ res' = Fail(404, "Student not found")
                        /\ UNCHANGED Student
                   ELSE /\ res' = [NoRes EXCEPT !.status = 200, !.body = deleted.doc]
                        /\ Student' = deleted.coll

\* ------------------------------------------------------------------------
\* GET /api/students (src/index.js 466-475)
\* ------------------------------------------------------------------------
ReceiveList ==
  /\ Idle
  /\ UNCHANGED <<tasks, App>>
  /\ req' = [NoReq EXCEPT !.op = "list"]
  /\ UNCHANGED <<Student, UploadHistory, clock, res>>

ListStudents ==
  /\ Pending("list")
  /\ UNCHANGED <<tasks, App>>
  /\ \E students \in find(Student) :
       res' = [NoRes EXCEPT !.status = 200, !.body = students]
  /\ UNCHANGED <<Student, UploadHistory, clock, req>>

\* ------------------------------------------------------------------------
\* GET /api/upload-history (src/index.js 550-562)
\* ------------------------------------------------------------------------
ReceiveHistory ==
  /\ Idle
  /\ UNCHANGED <<tasks, App>>
  /\ req' = [NoReq EXCEPT !.op = "history"]
  /\ UNCHANGED <<Student, UploadHistory, clock, res>>

GetUploadHistory ==
  /\ Pending("history")
  /\ UNCHANGED <<tasks, App>>
  /\ res' = [NoRes EXCEPT !.status = 200,
                          !.history = limit(sort(UploadHistory), HistoryLimit)]
  /\ UNCHANGED <<Student, UploadHistory, clock, req>>

\* ------------------------------------------------------------------------
\* GET /api/stats (src/index.js 565-589), its queries with no other
\* request between them
\* ------------------------------------------------------------------------
ReceiveStats ==
  /\ Idle
  /\ UNCHANGED <<tasks, App>>
  /\ req' = [NoReq EXCEPT !.op = "stats"]
  /\ UNCHANGED <<Student, UploadHistory, clock, res>>

GetStats ==
  LET totalStudents == Len(Student)
      passCount     == countPassed(Student)
  IN
  /\ Pending("stats")
  /\ UNCHANGED <<tasks, App>>
  /\ \E top \in IF Student = <<>> THEN {<<>>}
                 ELSE {<<d>> : d \in topPerformers(Student)} :
       res' = [NoRes EXCEPT
                 !.status = 200,
                 !.stats = [totalStudents     |-> totalStudents,
                            averagePercentage |->
                              IF totalStudents > 0
                              THEN ToFixed2(sumPercentage(Student), 10000 * totalStudents)
                              ELSE 0,
                            passCount         |-> passCount,
                            failCount         |-> totalStudents - passCount,
                            passPercentage    |->
                              IF totalStudents > 0
                              THEN ToFixed2(passCount, totalStudents)
                              ELSE 0,
                            topPerformer      |-> top]]
  /\ UNCHANGED <<Student, UploadHistory, clock, req>>

\* The response has been sent and the request is over.
Close ==
  /\ res # NoRes
  /\ UNCHANGED <<tasks, App>>
  /\ req' = NoReq
  /\ res' = NoRes
  /\ UNCHANGED <<Student, UploadHistory, clock>>

\* ------------------------------------------------------------------------
\* The requests of the model
\* ------------------------------------------------------------------------
Row(idv, namev, totalv, obtainedv) ==
  [h \in Headers |->
     CASE h = "Student_ID"     -> idv
       [] h = "Student_Name"   -> namev
       [] h = "Total_Marks"    -> totalv
       [] h = "Marks_Obtained" -> obtainedv
       [] OTHER                -> Undefined]

NameA == Str(<<"A">>)

NameB == Str(<<"B">>)

IdS == Str(<<"S">>)

ValidRows == {Row(Num(7), NameA, Num(3), Num(2)), Row(IdS, NameA, Num(80), Num(60))}

\* A row with a Percentage column of its own, and rows that fail: no name,
\* a total below 0, marks that are no number.
OddRows ==
  { [Row(Num(7), NameA, Num(3), Num(2)) EXCEPT !["Percentage"] = Num(99)],
    Row(Num(7), Undefined, Num(3), Num(2)),
    Row(IdS, NameA, Num(-3), Num(2)),
    Row(IdS, NameA, Num(3), Str(<<"x">>)) }

SampleRows == ValidRows \cup OddRows

Batches(rows) == UNION {[1..n -> rows] : n \in 0..MaxRows}

SampleFiles ==
  {NoFile, CorruptFile("grades.xlsx")}
  \cup {Sheet(b, "grades.xlsx") : b \in Batches(SampleRows)}
  \cup {Sheet(<<r>>, "marks.csv") : r \in ValidRows}
  \cup {Sheet(<<Row(IdS, NameA, Num(80), Num(60))>>, n) : n \in {"grades.xls", "notes.pdf"}}

ObjectIds == {<<t, c>> : t \in 1..MaxUploads, c \in 1..MaxRows}

SampleIds == {NoId, NotAnObjectId} \cup {ObjectId(x) : x \in ObjectIds}

\* name, total, obtained and percentage of the bodies: three that the
\* handler takes (one with a percentage of its own) and four that it
\* answers 400.
SampleFields ==
  { <<NameB, Num(80), Num(60), Num(99)>>,
    <<NameB, Str(<<"3">>), Num(0), Undefined>>,
    <<NameB, Num(3), Num(-1), Undefined>>,
    <<Undefined, Num(80), Num(60), Undefined>>,
    <<NameB, Num(0), Num(60), Undefined>>,
    <<NameB, Num(-3), Num(60), Undefined>>,
    <<NameB, Num(80), Str(<<"x">>), Undefined>> }

SampleBodies ==
  {[id |-> i, student_name |-> m[1], total_marks |-> m[2],
    marks_obtained |-> m[3], percentage |-> m[4]] :
     i \in SampleIds, m \in SampleFields}

\* ------------------------------------------------------------------------
\* The server of src/index.js serving one request after the other
\* ------------------------------------------------------------------------
Next ==
  \/ ReceiveUpload(SampleFiles)
  \/ RejectUpload(SampleFiles)
  \/ Upload
  \/ ReceiveUpdate(SampleBodies)
  \/ UpdateStudent
  \/ ReceiveDelete(SampleIds)
  \/ DeleteStudent
  \/ ReceiveList
  \/ ListStudents
  \/ ReceiveHistory
  \/ GetUploadHistory
  \/ ReceiveStats
  \/ GetStats
  \/ Close

Spec == Init /\ [][Next]_vars

\* ------------------------------------------------------------------------
\* The same server where one small file is uploaded again and again, so
\* that the upload history grows past what GET /api/upload-history returns
\* ------------------------------------------------------------------------
ReceiveUploadAgain(files) ==
  /\ Idle
  /\ UNCHANGED <<tasks, App>>
  /\ clock < MaxHistory
  /\ \E f \in files :
       /\ fileFilter(f)
       /\ req' = [NoReq EXCEPT !.op = "upload", !.file = f]
  /\ UNCHANGED <<Student, UploadHistory, clock, res>>

HistoryFiles == {Sheet(<<Row(Num(7), NameA, Num(3), Num(2))>>, "grades.xlsx")}

HistoryIds == {ObjectId(<<1, 1>>), ObjectId(<<MaxHistory, 1>>)}

HistoryBodies ==
  {[id |-> i, student_name |-> NameB, total_marks |-> Num(80),
    marks_obtained |-> Num(60), percentage |-> Undefined] : i \in HistoryIds}

NextHistory ==
  \/ ReceiveUploadAgain(HistoryFiles)
  \/ Upload
  \/ ReceiveUpdate(HistoryBodies)
  \/ UpdateStudent
  \/ ReceiveDelete(HistoryIds)
  \/ DeleteStudent
  \/ ReceiveList
  \/ ListStudents
  \/ ReceiveHistory
  \/ GetUploadHistory
  \/ ReceiveStats
  \/ GetStats
  \/ Close

SpecHistory == Init /\ [][NextHistory]_vars

\* ------------------------------------------------------------------------
\* The same server with requests that overlap: a handler runs up to its
\* next await, and the other handler may run before the awaited call of
\* the store returns. Each call of the store takes effect at one instant.
\* ------------------------------------------------------------------------
Slots == {1, 2}

\* A request in flight: where its handler stands (pc), the students of the
\* upload, and what the store held and did for it (the collection its
\* deleteMany cleared, the time of its insertMany, the position of its
\* entry in the upload history).
NoTask ==
  [req |-> NoReq, pc |-> "idle", students |-> <<>>, before |-> <<>>,
   insertedAt |-> 0, entry |-> 0, stats |-> NoStats, res |-> NoRes]

InitConcurrent ==
  /\ Student = <<>>
  /\ UploadHistory = <<>>
  /\ clock = 0
  /\ req = NoReq
  /\ res = NoRes
  /\ tasks = [s \in Slots |-> NoTask]
  /\ App = NoApp

Answer(s, response) ==
  tasks' = [tasks EXCEPT ![s].pc = "done", ![s].res = response]

StartUpload(s, files) ==
  /\ tasks[s] = NoTask
  /\ clock < MaxUploads
  /\ \E f \in files :
       /\ fileFilter(f)
       /\ tasks' = [tasks EXCEPT ![s].req = [NoReq EXCEPT !.op = "upload", !.file = f],
                                 ![s].pc = "received"]
  /\ UNCHANGED <<Student, UploadHistory, clock, req, res, App>>

\* The handler up to its first await (src/index.js 370-439).
UploadValidate(s) ==
  LET file == tasks[s].req.file
  IN
  /\ tasks[s].req.op = "upload"
  /\ tasks[s].pc = "received"
  /\ IF file.kind = "none" THEN Answer(s, Fail(400, "No file uploaded"))
     ELSE IF file.kind = "corrupt" THEN Answer(s, Fail(400, "Invalid file format"))
     ELSE IF EmptySheet(file.rows) THEN Answer(s, Fail(400, "File is empty"))
     ELSE LET processed == ProcessRows(file.rows)
          IN  IF ~processed.ok
              THEN Answer(s, [Fail(500, processed.error) EXCEPT !.row = processed.row])
              ELSE tasks' = [tasks EXCEPT ![s].pc = "deleteMany",
                                          ![s].students = processed.students]
  /\ UNCHANGED <<Student, UploadHistory, clock, req, res, App>>

\* await Student.deleteMany({}) (src/index.js 439)
UploadDeleteMany(s) ==
  /\ tasks[s].pc = "deleteMany"
  /\ Student' = deleteMany(Student)
  /\ tasks' = [tasks EXCEPT ![s].pc = "insertMany", ![s].before = Student]
  /\ UNCHANGED <<UploadHistory, clock, req, res, App>>

\* await Student.insertMany(students) (src/index.js 440), into what the
\* collection holds by now
UploadInsertMany(s) ==
  LET now      == clock + 1
      inserted == insertMany(Student, tasks[s].students, now, 1)
  IN
  /\ tasks[s].pc = "insertMany"
  /\ clock' = now
  /\ Student' = inserted.coll
  /\ IF inserted.ok
     THEN tasks' = [tasks EXCEPT ![s].pc = "save", ![s].insertedAt = now]
     ELSE tasks' = [tasks EXCEPT ![s].pc = "done", ![s].insertedAt = now,
                                 ![s].res = Fail(500, "E11000 duplicate key")]
  /\ UNCHANGED <<UploadHistory, req, res, App>>

\* await uploadRecord.save() and the answer (src/index.js 443-455)
UploadSave(s) ==
  LET file == tasks[s].req.file
  IN
  /\ tasks[s].pc = "save"
  /\ UploadHistory' = save(UploadHistory,
       uploadHistorySchema(file.originalname, Len(tasks[s].students), clock))
  /\ tasks' = [tasks EXCEPT
                 ![s].pc = "done",
                 ![s].entry = Len(UploadHistory) + 1,
                 ![s].res = [NoRes EXCEPT !.status = 200,
                                          !.studentsCount = Len(tasks[s].students),
                                          !.filename = file.originalname]]
  /\ UNCHANGED <<Student, clock, req, res, App>>

StartList(s) ==
  /\ tasks[s] = NoTask
  /\ tasks' = [tasks EXCEPT ![s].req = [NoReq EXCEPT !.op = "list"],
                            ![s].pc = "received"]
  /\ UNCHANGED <<Student, UploadHistory, clock, req, res, App>>

\* await Student.find().sort(...) and the answer (src/index.js 468-469)
ListFind(s) ==
  /\ tasks[s].req.op = "list"
  /\ tasks[s].pc = "received"
  /\ \E students \in find(Student) :
       Answer(s, [NoRes EXCEPT !.status = 200, !.body = students])
  /\ UNCHANGED <<Student, UploadHistory, clock, req, res, App>>

StartDelete(s, ids) ==
  /\ tasks[s] = NoTask
  /\ \E i \in ids :
       tasks' = [tasks EXCEPT
                   ![s].req = [NoReq EXCEPT !.op = "delete",
                                            !.body = [NoBody EXCEPT !.id = i]],
                   ![s].pc = "received"]
  /\ UNCHANGED <<Student, UploadHistory, clock, req, res, App>>

\* await Student.findByIdAndDelete(id) and the answer (src/index.js 530-541)
DeleteFind(s) ==
  LET id      == tasks[s].req.body.id
      deleted == findByIdAndDelete(Student, id.oid)
  IN
  /\ tasks[s].req.op = "delete"
  /\ tasks[s].pc = "received"
  /\ IF id.t = "u"
     THEN Answer(s, Fail(400, "Student ID is required")) /\ UNCHANGED Student
     ELSE IF id.t # "oid"
     THEN Answer(s, Fail(500, "Failed to delete student")) /\ UNCHANGED Student
     ELSE IF ~deleted.found
     THEN Answer(s, Fail(404, "Student not found")) /\ UNCHANGED Student
     ELSE /\ Answer(s, [NoRes EXCEPT !.status = 200, !.body = deleted.doc])
          /\ Student' = deleted.coll
  /\ UNCHANGED <<UploadHistory, clock, req, res, App>>

StartStats(s) ==
  /\ tasks[s] = NoTask
  /\ tasks' = [tasks EXCEPT ![s].req = [NoReq EXCEPT !.op = "stats"],
                            ![s].pc = "received"]
  /\ UNCHANGED <<Student, UploadHistory, clock, req, res, App>>

\* const totalStudents = await Student.countDocuments() (src/index.js 567)
StatsCountDocuments(s) ==
  /\ tasks[s].req.op = "stats"
  /\ tasks[s].pc = "received"
  /\ tasks' = [tasks EXCEPT ![s].pc = "aggregate",
                            ![s].stats.totalStudents = Len(Student)]
  /\ UNCHANGED <<Student, UploadHistory, clock, req, res, App>>

\* const avgPercentage = await Student.aggregate(...) (src/index.js 568-570)
StatsAggregate(s) ==
  /\ tasks[s].pc = "aggregate"
  /\ tasks' = [tasks EXCEPT
                 ![s].pc = "countPassed",
                 ![s].stats.averagePercentage =
                    IF Len(Student) > 0
                    THEN ToFixed2(sumPercentage(Student), 10000 * Len(Student))
                    ELSE 0]
  /\ UNCHANGED <<Student, UploadHistory, clock, req, res, App>>

\* const passCount = await Student.countDocuments({percentage: {$gte: 40}})
\* and failCount (src/index.js 572-573)
StatsCountPassed(s) ==
  /\ tasks[s].pc = "countPassed"
  /\ tasks' = [tasks EXCEPT
                 ![s].pc = "findOne",
                 ![s].stats.passCount = countPassed(Student),
                 ![s].stats.failCount =
                    tasks[s].stats.totalStudents - countPassed(Student)]
  /\ UNCHANGED <<Student, UploadHistory, clock, req, res, App>>

\* const topPerformer = await Student.findOne()... and the answer
\* (src/index.js 575-584)
StatsFindOne(s) ==
  LET totalStudents == tasks[s].stats.totalStudents
      passCount     == tasks[s].stats.passCount
  IN
  /\ tasks[s].pc = "findOne"
  /\ \E top \in IF Student = <<>> THEN {<<>>}
                 ELSE {<<d>> : d \in topPerformers(Student)} :
       Answer(s, [NoRes EXCEPT
                    !.status = 200,
                    !.stats = [tasks[s].stats EXCEPT
                                 !.passPercentage =
                                    IF totalStudents > 0
                                    THEN ToFixed2(passCount, totalStudents)
                                    ELSE 0,
                                 !.topPerformer = top]])
  /\ UNCHANGED <<Student, UploadHistory, clock, req, res, App>>

\* The response has been sent and the request is over.
Finish(s) ==
  /\ tasks[s].pc = "done"
  /\ tasks' = [tasks EXCEPT ![s] = NoTask]
  /\ UNCHANGED <<Student, UploadHistory, clock, req, res, App>>

ConcurrentFiles ==
  {Sheet(b, "grades.xlsx") : b \in Batches(ValidRows)} \cup {NoFile}

ConcurrentIds == {ObjectId(<<1, 1>>)}

NextConcurrent ==
  \/ \E s \in Slots : StartUpload(s, ConcurrentFiles)
  \/ \E s \in Slots : UploadValidate(s)
  \/ \E s \in Slots : UploadDeleteMany(s)
  \/ \E s \in Slots : UploadInsertMany(s)
  \/ \E s \in Slots : UploadSave(s)
  \/ \E s \in Slots : StartList(s)
  \/ \E s \in Slots : ListFind(s)
  \/ \E s \in Slots : StartDelete(s, ConcurrentIds)
  \/ \E s \in Slots : DeleteFind(s)
  \/ \E s \in Slots : StartStats(s)
  \/ \E s \in Slots : StatsCountDocuments(s)
  \/ \E s \in Slots : StatsAggregate(s)
  \/ \E s \in Slots : StatsCountPassed(s)
  \/ \E s \in Slots : StatsFindOne(s)
  \/ \E s \in Slots : Finish(s)

SpecConcurrent == InitConcurrent /\ [][NextConcurrent]_vars

\* ------------------------------------------------------------------------
\* Arithmetic and casts of the handlers that do not parse the cells
\* (src/server.js, src/unnamed/part_001)
\* ------------------------------------------------------------------------
\* The quotient of a number that is not 0 by 0; n is its sign.
Infinity(sign) == [t |-> "inf", n |-> sign, s |-> <<>>]

\* Number(v), the conversion that / applies to its operands too: the
\* whole string has to be a number, "" is 0, undefined is NaN.
Number(v) ==
  CASE v.t = "n"   -> v
    [] v.t = "inf" -> v
    [] v.t = "s"   ->
         LET neg  == v.s # <<>> /\ Head(v.s) = "-"
             body == IF neg THEN Tail(v.s) ELSE v.s
         IN  IF v.s = <<>> THEN Num(0)
             ELSE IF body = <<>> \/ DigitPrefixLen(body) # Len(body) THEN NaN
             ELSE Num((IF neg THEN -1 ELSE 1) * DigitsValue(body, Len(body)))
    [] OTHER       -> NaN

\* parseFloat(((obtained / total) * 100).toFixed(2)): NaN for an operand
\* that is no number and for 0 / 0, an infinity for another number / 0.
Percentage(obtained, total) ==
  LET o == Number(obtained)
      d == Number(total)
  IN  IF o.t # "n" \/ d.t # "n" THEN NaN
      ELSE IF d.n = 0
      THEN IF o.n = 0 THEN NaN ELSE Infinity(IF o.n > 0 THEN 1 ELSE -1)
      ELSE Num(ToFixed2(o.n, d.n))

\* A path of type String that is required: a string that is not empty,
\* or a number, which is cast to its digits.
ValidString(v) == (v.t = "s" /\ v.s # <<>>) \/ v.t = "n"

\* A path of type Number that is required: a number, an infinity, or a
\* string that is not empty and reads as a number; NaN cannot be cast.
ValidNumber(v) ==
  \/ v.t \in {"n", "inf"}
  \/ v.t = "s" /\ v.s # <<>> /\ Number(v).t = "n"

\* The validation of a student object against the schema
\* (src/server.js 24-31).
ValidStudent(obj) ==
  /\ ValidString(obj.student_id) /\ ValidString(obj.student_name)
  /\ ValidNumber(obj.total_marks) /\ ValidNumber(obj.marks_obtained)
  /\ ValidNumber(obj.percentage)

\* The student object cast to the types of the schema. The percentage
\* stays a JavaScript value, as it may be an infinity.
CastStudent(obj) ==
  [student_id     |-> String(obj.student_id),
   student_name   |-> String(obj.student_name),
   total_marks    |-> Number(obj.total_marks).n,
   marks_obtained |-> Number(obj.marks_obtained).n,
   percentage     |-> Number(obj.percentage)]

\* Student.insertMany(students) on objects that were not checked:
\* Mongoose validates every document first and, when one fails, rejects
\* the call with nothing written.
ValidatedInsertMany(coll, docs, now) ==
  IF \E i \in 1..Len(docs) : ~ValidStudent(docs[i])
  THEN [ok |-> FALSE, coll |-> coll]
  ELSE insertMany(coll, [i \in 1..Len(docs) |-> CastStudent(docs[i])], now, 1)

\* ------------------------------------------------------------------------
\* The server of src/server.js; the first server of src/index.js (1-270)
\* has the same upload handler
\* ------------------------------------------------------------------------
\* The fileFilter of multer (src/server.js 60-67).
ServerFileFilter(file) ==
  file.kind = "none" \/ file.mimetype \in {Xlsx, "text/csv"}

ServerReceiveUpload(files) ==
  /\ Idle
  /\ UNCHANGED <<tasks, App>>
  /\ clock < MaxUploads
  /\ \E f \in files :
       /\ ServerFileFilter(f)
       /\ req' = [NoReq EXCEPT !.op = "upload", !.file = f]
  /\ UNCHANGED <<Student, UploadHistory, clock, res>>

\* The Error of the fileFilter goes to the error handling middleware.
ServerRejectUpload(files) ==
  /\ Idle
  /\ UNCHANGED <<tasks, App>>
  /\ \E f \in files :
       /\ ~ServerFileFilter(f)
       /\ req' = [NoReq EXCEPT !.op = "upload", !.file = f]
  /\ res' = Fail(500, "Internal server error")
  /\ UNCHANGED <<Student, UploadHistory, clock>>

\* The callback of jsonData.map (src/server.js 89-98): no cell is checked.
ServerMapRow(row) ==
  [student_id     |-> row["Student_ID"],
   student_name   |-> row["Student_Name"],
   total_marks    |-> row["Total_Marks"],
   marks_obtained |-> row["Marks_Obtained"],
   percentage     |-> Percentage(row["Marks_Obtained"], row["Total_Marks"])]

\* deleteMany, insertMany, uploadRecord.save and the answer
\* (src/server.js 119-135), the store answering every call.
ServerPersist(students) ==
  LET now      == clock + 1
      inserted == ValidatedInsertMany(deleteMany(Student), students, now)
  IN  /\ clock' = now
      /\ Student' = inserted.coll
      /\ IF ~inserted.ok
         THEN /\ res' = Fail(500, "Failed to process file")
              /\ UNCHANGED UploadHistory
         ELSE /\ UploadHistory' = save(UploadHistory,
                   uploadHistorySchema(req.file.originalname, Len(students), now))
              /\ res' = [NoRes EXCEPT !.status = 200,
                                      !.studentsCount = Len(students),
                                      !.filename = req.file.originalname]

\* app.post('/api/upload') of src/server.js (73-141)
ServerUpload ==
  /\ Pending("upload")
  /\ UNCHANGED <<req, tasks, App>>
  /\ IF req.file.kind = "none"
     THEN /\ res' = Fail(400, "No file uploaded")
          /\ UNCHANGED <<Student, UploadHistory, clock>>
     ELSE IF req.file.kind = "corrupt"
     THEN /\ res' = Fail(500, "Failed to process file")
          /\ UNCHANGED <<Student, UploadHistory, clock>>
     ELSE ServerPersist([i \in 1..Len(req.file.rows) |-> ServerMapRow(req.file.rows[i])])

ServerReceiveDelete(ids) ==
  /\ Idle
  /\ UNCHANGED <<tasks, App>>
  /\ \E i \in ids : req' = [NoReq EXCEPT !.op = "delete", !.body = [NoBody EXCEPT !.id = i]]
  /\ UNCHANGED <<Student, UploadHistory, clock, res>>

\* app.delete('/api/students/:id') of src/server.js (181-191)
ServerDelete ==
  LET id      == req.body.id
      deleted == findByIdAndDelete(Student, id.oid)
  IN
  /\ Pending("delete")
  /\ UNCHANGED <<req, tasks, UploadHistory, clock, App>>
  /\ IF id.t # "oid"
     THEN /\ res' = Fail(500, "Failed to delete student")
          /\ UNCHANGED Student
     ELSE IF ~deleted.found
     THEN /\ res' = Fail(404, "Student not found")
          /\ UNCHANGED Student
     ELSE /\ res' = [NoRes EXCEPT !.status = 200]
          /\ Student' = deleted.coll

\* Rows as they are, without an id, without a name, with both marks 0 and
\* with a total of 0.
ServerRows ==
  ValidRows
  \cup { Row(Undefined, NameA, Num(3), Num(2)),
         Row(Num(7), Undefined, Num(3), Num(2)),
         Row(IdS, NameA, Num(0), Num(0)),
         Row(IdS, NameA, Num(0), Num(2)) }

ServerFiles ==
  {NoFile, CorruptFile("grades.xlsx")}
  \cup {Sheet(b, "grades.xlsx") : b \in Batches(ServerRows)}
  \cup {Sheet(<<r>>, n) : r \in ValidRows, n \in {"marks.csv", "grades.xls"}}

ServerIds == {NotAnObjectId} \cup {ObjectId(x) : x \in ObjectIds}

NextServer ==
  \/ ServerReceiveUpload(ServerFiles)
  \/ ServerRejectUpload(ServerFiles)
  \/ ServerUpload
  \/ ServerReceiveDelete(ServerIds)
  \/ ServerDelete
  \/ Close

SpecServer == Init /\ [][NextServer]_vars

\* ------------------------------------------------------------------------
\* The server of src/unnamed/part_001
\* ------------------------------------------------------------------------
\* The code unit of a character: "-", a digit, or a letter, for which the
\* one of "x" stands.
CharCode(c) == IF c = "-" THEN 45 ELSE IF IsDigit(c) THEN 48 + DigitVal(c) ELSE 120

\* a > b on two strings: the order of their code units, a proper prefix
\* coming first.
RECURSIVE StringGreater(_, _)
StringGreater(a, b) ==
  IF a = <<>> THEN FALSE
  ELSE IF b = <<>> THEN TRUE
  ELSE IF Head(a) = Head(b) THEN StringGreater(Tail(a), Tail(b))
  ELSE CharCode(Head(a)) > CharCode(Head(b))

\* a > b of JavaScript: two strings are compared as strings, any other
\* pair as numbers, and no comparison with NaN is true.
Greater(a, b) ==
  IF a.t = "s" /\ b.t = "s" THEN StringGreater(a.s, b.s)
  ELSE LET x == Number(a)
           y == Number(b)
       IN  /\ x.t # "nan" /\ y.t # "nan"
           /\ IF x.t = "inf" THEN x.n = 1 /\ y # x
              ELSE IF y.t = "inf" THEN y.n = -1
              ELSE x.n > y.n

\* The fileFilter of multer (src/unnamed/part_001 57-71).
Part001FileFilter(file) ==
  \/ file.kind = "none"
  \/ file.mimetype \in {Xlsx, "text/csv", "application/vnd.ms-excel",
                        "application/csv", "text/x-csv"}

Part001ReceiveUpload(files) ==
  /\ Idle
  /\ UNCHANGED <<tasks, App>>
  /\ clock < MaxUploads
  /\ \E f \in files :
       /\ Part001FileFilter(f)
       /\ req' = [NoReq EXCEPT !.op = "upload", !.file = f]
  /\ UNCHANGED <<Student, UploadHistory, clock, res>>

\* The Error of the fileFilter is answered by the default error handler
\* of express.
Part001RejectUpload(files) ==
  /\ Idle
  /\ UNCHANGED <<tasks, App>>
  /\ \E f \in files :
       /\ ~Part001FileFilter(f)
       /\ req' = [NoReq EXCEPT !.op = "upload", !.file = f]
  /\ res' = Fail(500, "Invalid file type")
  /\ UNCHANGED <<Student, UploadHistory, clock>>

\* The checks of the callback of jsonData.map in the order they are made
\* (src/unnamed/part_001 121-135); "" when the row passes them all. A
\* cell sheet_to_json has no value for is no property of the row.
Part001RowError(row) ==
  IF \E h \in {"Student_ID", "Student_Name", "Total_Marks", "Marks_Obtained"} :
       row[h] = Undefined
  THEN "Missing fields in row"
  ELSE IF isNaN(Number(row["Total_Marks"])) \/ isNaN(Number(row["Marks_Obtained"]))
  THEN "Invalid numbers in row"
  ELSE IF Greater(Number(row["Marks_Obtained"]), Number(row["Total_Marks"]))
  THEN "Marks obtained > total marks in row"
  ELSE ""

\* The object the callback returns for a row that passes the checks
\* (src/unnamed/part_001 137-147).
Part001MapRow(row) ==
  [student_id     |-> Str(String(row["Student_ID"])),
   student_name   |-> Str(String(row["Student_Name"])),
   total_marks    |-> Number(row["Total_Marks"]),
   marks_obtained |-> Number(row["Marks_Obtained"]),
   percentage     |-> Percentage(row["Marks_Obtained"], row["Total_Marks"])]

\* deleteMany, insertMany, UploadHistory.create and the answer
\* (src/unnamed/part_001 156-175), the store answering every call.
Part001Persist(students) ==
  LET now      == clock + 1
      inserted == ValidatedInsertMany(deleteMany(Student), students, now)
  IN  /\ clock' = now
      /\ Student' = inserted.coll
      /\ IF ~inserted.ok
         THEN /\ res' = Fail(500, "Database error")
              /\ UNCHANGED UploadHistory
         ELSE /\ UploadHistory' = save(UploadHistory,
                   uploadHistorySchema(req.file.originalname, Len(students), now))
              /\ res' = [NoRes EXCEPT !.status = 200,
                                      !.studentsCount = Len(students),
                                      !.filename = req.file.originalname]

\* app.post('/api/upload') of src/unnamed/part_001 (98-181)
Part001Upload ==
  LET rows == req.file.rows
      bad  == {i \in 1..Len(rows) : Part001RowError(rows[i]) # ""}
  IN
  /\ Pending("upload")
  /\ UNCHANGED <<req, tasks, App>>
  /\ IF req.file.kind = "none"
     THEN /\ res' = Fail(400, "No file uploaded")
          /\ UNCHANGED <<Student, UploadHistory, clock>>
     ELSE IF req.file.kind = "corrupt"
     THEN /\ res' = Fail(400, "File parsing error")
          /\ UNCHANGED <<Student, UploadHistory, clock>>
     ELSE IF bad # {}
     THEN /\ res' = [Fail(400, Part001RowError(rows[Min(bad)])) EXCEPT !.row = Min(bad)]
          /\ UNCHANGED <<Student, UploadHistory, clock>>
     ELSE Part001Persist([i \in 1..Len(rows) |-> Part001MapRow(rows[i])])

Part001ReceiveUpdate(bodies) ==
  /\ Idle
  /\ UNCHANGED <<tasks, App>>
  /\ \E b \in bodies : req' = [NoReq EXCEPT !.op = "update", !.body = b]
  /\ UNCHANGED <<Student, UploadHistory, clock, res>>

\* app.put('/api/students/:id') of src/unnamed/part_001 (206-236): the
\* marks are compared as the body carries them; the update is cast and
\* validated by findByIdAndUpdate, whose errors the catch block answers.
Part001UpdateStudent ==
  LET id             == req.body.id
      student_name   == req.body.student_name
      total_marks    == req.body.total_marks
      marks_obtained == req.body.marks_obtained
      percentage     == Percentage(marks_obtained, total_marks)
  IN
  /\ Pending("update")
  /\ UNCHANGED <<req, tasks, UploadHistory, clock, App>>
  /\ IF Greater(marks_obtained, total_marks)
     THEN /\ res' = Fail(400, "Marks obtained cannot exceed total marks")
          /\ UNCHANGED Student
     ELSE IF \/ id.t # "oid"
             \/ ~ValidString(student_name)
             \/ ~ValidNumber(total_marks) \/ ~ValidNumber(marks_obtained)
             \/ ~ValidNumber(percentage)
     THEN /\ res' = Fail(500, "Failed to update student")
          /\ UNCHANGED Student
     ELSE LET updated == findByIdAndUpdate(Student, id.oid,
                           [student_name   |-> String(student_name),
                            total_marks    |-> Number(total_marks).n,
                            marks_obtained |-> Number(marks_obtained).n,
                            percentage     |-> percentage])
          IN  IF ~updated.found
              THEN /\ res' = Fail(404, "Student not found")
                   /\ UNCHANGED Student
              ELSE /\ res' = [NoRes EXCEPT !.status = 200, !.body = updated.doc]
                   /\ Student' = updated.coll

Part001ReceiveDelete(ids) ==
  /\ Idle
  /\ UNCHANGED <<tasks, App>>
  /\ \E i \in ids : req' = [NoReq EXCEPT !.op = "delete", !.body = [NoBody EXCEPT !.id = i]]
  /\ UNCHANGED <<Student, UploadHistory, clock, res>>

\* app.delete('/api/students/:id') of src/unnamed/part_001 (239-250)
Part001DeleteStudent ==
  LET id      == req.body.id
      deleted == findByIdAndDelete(Student, id.oid)
  IN
  /\ Pending("delete")
  /\ UNCHANGED <<req, tasks, UploadHistory, clock, App>>
  /\ IF id.t # "oid"
     THEN /\ res' = Fail(500, "Failed to delete student")
          /\ UNCHANGED Student
     ELSE IF ~deleted.found
     THEN /\ res' = Fail(404, "Student not found")
          /\ UNCHANGED Student
     ELSE /\ res' = [NoRes EXCEPT !.status = 200]
          /\ Student' = deleted.coll

\* Rows of numbers: valid ones, one with more marks than the total, and
\* ones with a total or marks that are 0 or below; one row without an id.
Part001Rows ==
  ValidRows
  \cup { Row(IdS, NameA, Num(3), Num(5)),
         Row(IdS, NameA, Num(0), Num(0)),
         Row(IdS, NameA, Num(0), Num(-1)),
         Row(IdS, NameA, Num(-3), Num(-5)),
         Row(IdS, NameA, Num(3), Num(-1)),
         Row(Undefined, NameA, Num(3), Num(2)) }

Part001Files ==
  {NoFile, CorruptFile("grades.xlsx")}
  \cup {Sheet(b, "grades.xlsx") : b \in Batches(Part001Rows)}
  \cup {Sheet(<<r>>, n) : r \in ValidRows, n \in {"grades.xls", "notes.pdf"}}

\* The marks of a body as JSON carries them: numbers, or the strings of
\* a form that posts the text of its inputs.
Part001Fields ==
  { <<Num(3), Num(2)>>, <<Num(3), Num(5)>>,
    <<Str(<<"9">>), Str(<<"1", "0">>)>>, <<Str(<<"1", "0">>), Str(<<"9">>)>>,
    <<Num(0), Num(0)>>, <<Undefined, Num(2)>>, <<Num(3), Str(<<"x">>)>> }

Part001Bodies ==
  {[id |-> i, student_name |-> NameB, total_marks |-> m[1],
    marks_obtained |-> m[2], percentage |-> Undefined] :
     i \in ServerIds, m \in Part001Fields}

NextPart001 ==
  \/ Part001ReceiveUpload(Part001Files)
  \/ Part001RejectUpload(Part001Files)
  \/ Part001Upload
  \/ Part001ReceiveUpdate(Part001Bodies)
  \/ Part001UpdateStudent
  \/ Part001ReceiveDelete(ServerIds)
  \/ Part001DeleteStudent
  \/ Close

SpecPart001 == Init /\ [][NextPart001]_vars

\* ------------------------------------------------------------------------
\* The dashboard (src/frontend/src/App.jsx) against the server of
\* src/index.js (271-676)
\* ------------------------------------------------------------------------
\* The requests of handleUpdateStudent and handleDeleteStudent.
PutStudent == "PUT /api/students/:id"

DeleteStudentById == "DELETE /api/students/:id"

\* The method and path of a request of the model.
RequestLine(op) ==
  CASE op = "upload"  -> "POST /api/upload"
    [] op = "list"    -> "GET /api/students"
    [] op = "update"  -> "POST /api/students/update"
    [] op = "delete"  -> "POST /api/students/delete"
    [] op = "history" -> "GET /api/upload-history"
    [] op = "stats"   -> "GET /api/stats"
    [] OTHER          -> op

\* The routes under /api the server registers (src/index.js 361-565).
Routes ==
  {"GET /api/health", "POST /api/upload", "GET /api/students",
   "POST /api/students/update", "POST /api/students/delete",
   "GET /api/upload-history", "GET /api/stats"}

\* app.use('/api', ...) after the routes (src/index.js 645-648): a request
\* under /api that no route matches.
NotFound ==
  /\ req.op # "none" /\ res = NoRes
  /\ UNCHANGED <<tasks, App>>
  /\ RequestLine(req.op) \notin Routes
  /\ res' = Fail(404, "API endpoint not found")
  /\ UNCHANGED <<Student, UploadHistory, clock, req>>

\* response.ok
ok(response) == response.status >= 200 /\ response.status <= 299

\* An upload of another client is over.
CloseUpload ==
  /\ req.op = "upload"
  /\ Close
  /\ UNCHANGED App

\* fetchStudents up to its await (App.jsx 20-22), called on mount.
fetchStudents ==
  /\ Idle
  /\ UNCHANGED <<tasks, App>>
  /\ req' = [NoReq EXCEPT !.op = "list"]
  /\ UNCHANGED <<Student, UploadHistory, clock, res>>

\* fetchStudents after its await (App.jsx 23-24): setStudents(data).
setStudents ==
  /\ req.op = "list" /\ res # NoRes
  /\ UNCHANGED tasks
  /\ App' = [App EXCEPT !.students = res.body]
  /\ req' = NoReq
  /\ res' = NoRes
  /\ UNCHANGED <<Student, UploadHistory, clock>>

\* handleEditStudent (App.jsx 47-49) on a student of the list shown.
handleEditStudent ==
  /\ Idle
  /\ UNCHANGED tasks
  /\ \E i \in 1..Len(App.students) :
       App' = [App EXCEPT !.editingStudent = <<App.students[i]>>]
  /\ UNCHANGED <<Student, UploadHistory, clock, req, res>>

\* onClose of the modal (App.jsx 153)
onClose ==
  /\ Idle
  /\ UNCHANGED tasks
  /\ App.editingStudent # <<>>
  /\ App' = [App EXCEPT !.editingStudent = <<>>]
  /\ UNCHANGED <<Student, UploadHistory, clock, req, res>>

\* handleUpdateStudent up to its await (App.jsx 51-59): the student of
\* the modal with the fields as edited.
handleUpdateStudent(edits) ==
  /\ Idle
  /\ UNCHANGED <<tasks, App>>
  /\ App.editingStudent # <<>>
  /\ \E e \in edits :
       req' = [NoReq EXCEPT !.op = PutStudent,
                 !.body = [id             |-> ObjectId(App.editingStudent[1].id),
                           student_name   |-> e[1],
                           total_marks    |-> e[2],
                           marks_obtained |-> e[3],
                           percentage     |-> Num(App.editingStudent[1].percentage)]]
  /\ UNCHANGED <<Student, UploadHistory, clock, res>>

\* handleUpdateStudent after its await (App.jsx 61-64)
updateResponse ==
  /\ req.op = PutStudent /\ res # NoRes
  /\ UNCHANGED tasks
  /\ res' = NoRes
  /\ IF ok(res)
     THEN /\ req' = [NoReq EXCEPT !.op = "list"]
          /\ App' = [App EXCEPT !.editingStudent = <<>>]
     ELSE /\ req' = NoReq
          /\ UNCHANGED App
  /\ UNCHANGED <<Student, UploadHistory, clock>>

\* handleDeleteStudent up to its await (App.jsx 70-75), the question of
\* window.confirm answered yes.
handleDeleteStudent ==
  /\ Idle
  /\ UNCHANGED <<tasks, App>>
  /\ \E i \in 1..Len(App.students) :
       req' = [NoReq EXCEPT !.op = DeleteStudentById,
                 !.body = [NoBody EXCEPT !.id = ObjectId(App.students[i].id)]]
  /\ UNCHANGED <<Student, UploadHistory, clock, res>>

\* handleDeleteStudent after its await (App.jsx 77-79)
deleteResponse ==
  /\ req.op = DeleteStudentById /\ res # NoRes
  /\ UNCHANGED <<tasks, App>>
  /\ res' = NoRes
  /\ req' = IF ok(res) THEN [NoReq EXCEPT !.op = "list"] ELSE NoReq
  /\ UNCHANGED <<Student, UploadHistory, clock>>

DashboardFiles == {Sheet(b, "grades.xlsx") : b \in Batches(ValidRows)}

\* The fields as the modal may leave them.
DashboardEdits == {<<NameB, Num(80), Num(60)>>, <<NameA, Num(3), Num(1)>>}

NextDashboard ==
  \/ ReceiveUpload(DashboardFiles)
  \/ Upload
  \/ CloseUpload
  \/ fetchStudents
  \/ ListStudents
  \/ setStudents
  \/ handleEditStudent
  \/ onClose
  \/ handleUpdateStudent(DashboardEdits)
  \/ updateResponse
  \/ handleDeleteStudent
  \/ deleteResponse
  \/ NotFound

SpecDashboard == Init /\ [][NextDashboard]_vars

\* ------------------------------------------------------------------------
\* The upload handler on one row, the row drawn from every way of naming
\* its columns and from a wider range of marks
\* ------------------------------------------------------------------------
Absent == [k \in 1..4 |-> Undefined]

\* The columns of one field: v under one of its four aliases.
Single(v) == {[k \in 1..4 |-> IF k = a THEN v ELSE Undefined] : a \in 1..4}

\* The columns of one field: va under alias a and vb under alias b.
Double(a, va, b, vb) ==
  [k \in 1..4 |-> IF k = a THEN va ELSE IF k = b THEN vb ELSE Undefined]

IdColumns == {Absent} \cup Single(IdS) \cup {Double(1, Num(7), 4, IdS)}

NameColumns == {Absent} \cup Single(NameA)

TotalColumns ==
  {Absent} \cup Single(Num(0)) \cup Single(Num(3)) \cup Single(Str(<<"8", "0">>))
  \cup {Double(1, Num(0), 4, Num(3)), Double(1, Num(3), 4, Num(80))}

ObtainedColumns ==
  {Absent} \cup Single(Num(0)) \cup Single(Num(2)) \cup Single(Str(<<"x">>))
  \cup {Double(1, Num(0), 4, Num(2)), Double(2, Num(2), 3, Num(1))}

MakeRow(ic, nc, tc, oc) ==
  [h \in Headers |->
     IF \E k \in 1..4 : IdAliases[k] = h
       THEN ic[CHOOSE k \in 1..4 : IdAliases[k] = h]
     ELSE IF \E k \in 1..4 : NameAliases[k] = h
       THEN nc[CHOOSE k \in 1..4 : NameAliases[k] = h]
     ELSE IF \E k \in 1..4 : TotalAliases[k] = h
       THEN tc[CHOOSE k \in 1..4 : TotalAliases[k] = h]
     ELSE IF \E k \in 1..4 : ObtainedAliases[k] = h
       THEN oc[CHOOSE k \in 1..4 : ObtainedAliases[k] = h]
     ELSE Undefined]

AliasRows ==
  {MakeRow(ic, nc, tc, oc) :
     ic \in IdColumns, nc \in NameColumns, tc \in TotalColumns, oc \in ObtainedColumns}

MarkRows ==
  {Row(IdS, NameA, t, o) :
     t \in {Num(-3), Num(0), Num(3), Num(32), Num(80), Str(<<"3">>)},
     o \in {Num(-1), Num(0), Num(1), Num(2), Num(60), Num(100),
            Str(<<"x">>), Str(<<"2", "x">>)}}

InitRow ==
  /\ Student = <<>>
  /\ UploadHistory = <<>>
  /\ clock = 0
  /\ res = NoRes
  /\ tasks = <<>>
  /\ App = NoApp
  /\ \E r \in AliasRows \cup MarkRows :
       req = [NoReq EXCEPT !.op = "upload", !.file = Sheet(<<r>>, "grades.xlsx")]

NextRow ==
  \/ Upload
  \/ Close

SpecRow == InitRow /\ [][NextRow]_vars

\* ------------------------------------------------------------------------
\* What the specification says of a row, apart from the handler
\* ------------------------------------------------------------------------
\* The value of a canonical field: that of the first alias, in the
\* documented order, that the row has.
FirstPresent(row, aliases) ==
  LET present == {k \in 1..4 : row[aliases[k]] # Undefined}
  IN  IF present = {} THEN Undefined ELSE row[aliases[Min(present)]]

\* p hundredths is (obtained / total * 100) rounded to two decimals: the
\* nearest hundredth, the one of larger magnitude on a tie.
Rounded2(p, obtained, total) ==
  /\ total # 0
  /\ 2 * Abs(p * total - 10000 * obtained) <= Abs(total)
  /\ 2 * Abs(p * total - 10000 * obtained) = Abs(total)
       => Abs(p * total) > Abs(10000 * obtained)

RowErrors == {"Missing required data", "Invalid marks data"}

\* A cell that is a number, or a string that reads as a whole number.
Numeric(v) ==
  \/ v.t = "n"
  \/ /\ v.t = "s"
     /\ v.s # <<>>
     /\ \A k \in 1..Len(v.s) : IsDigit(v.s[k])

NumberOf(v) == IF v.t = "n" THEN v.n ELSE DigitsValue(v.s, Len(v.s))

\* The number of aliases of a field that the row has.
Named(row, aliases) == Cardinality({k \in 1..4 : row[aliases[k]] # Undefined})

\* The row has each of the four fields once, a non-empty id and name,
\* total > 0 and obtained >= 0.
WellFormedRow(row) ==
  /\ Named(row, IdAliases) = 1 /\ Named(row, NameAliases) = 1
  /\ Named(row, TotalAliases) = 1 /\ Named(row, ObtainedAliases) = 1
  /\ String(FirstPresent(row, IdAliases)) # <<>>
  /\ String(FirstPresent(row, NameAliases)) # <<>>
  /\ Numeric(FirstPresent(row, TotalAliases))
  /\ Numeric(FirstPresent(row, ObtainedAliases))
  /\ NumberOf(FirstPresent(row, TotalAliases)) > 0
  /\ NumberOf(FirstPresent(row, ObtainedAliases)) >= 0

\* The same logical row with every field under its first alias.
Canonical(row) ==
  Row(FirstPresent(row, IdAliases), FirstPresent(row, NameAliases),
      FirstPresent(row, TotalAliases), FirstPresent(row, ObtainedAliases))

\* The fields of a stored record that come from the row.
Fields(doc) ==
  [student_id |-> doc.student_id, student_name |-> doc.student_name,
   total_marks |-> doc.total_marks, marks_obtained |-> doc.marks_obtained,
   percentage |-> doc.percentage]

\* The body of an update is valid: a name, total > 0 and obtained >= 0.
ValidBody(b) ==
  /\ b.student_name.t = "s" /\ b.student_name.s # <<>>
  /\ Numeric(b.total_marks) /\ NumberOf(b.total_marks) > 0
  /\ Numeric(b.marks_obtained) /\ NumberOf(b.marks_obtained) >= 0

\* The position in the collection of the record the update names, 0 if none.
Target ==
  IF req.body.id.t = "oid" /\ \E j \in 1..Len(Student) : Student[j].id = req.body.id.oid
  THEN CHOOSE j \in 1..Len(Student) : Student[j].id = req.body.id.oid
  ELSE 0

\* ------------------------------------------------------------------------
\* C1: an upload one of whose rows fails the handler's normalization or
\* validation is rejected, and the students and the upload history are
\* after it what they were before it.
\* ------------------------------------------------------------------------
C1_FailFastNoPartialCommit ==
  [][(/\ Pending("upload")
      /\ req.file.kind = "sheet"
      /\ \E i \in 1..Len(req.file.rows) : ~ProcessRow(req.file.rows[i], i - 1).ok)
     => /\ res'.status >= 400
        /\ Student' = Student
        /\ UploadHistory' = UploadHistory]_vars

C1_Witness ==
  /\ req.op = "upload"
  /\ res.status = 500
  /\ res.error \in RowErrors
  /\ Len(req.file.rows) = 2
  /\ ProcessRow(req.file.rows[1], 0).ok
  /\ Student # <<>>
  /\ UploadHistory # <<>>

\* ------------------------------------------------------------------------
\* C2: an upload answered with success leaves exactly the records of its
\* batch, in order and with fresh identities, none of the records of the
\* state before, and appends one history entry with the size of the batch
\* and the original name of the file.
\* ------------------------------------------------------------------------
C2_ReplaceSemantics ==
  [][(Pending("upload") /\ res'.status = 200)
     => LET rows == req.file.rows
            N    == Len(rows)
        IN  /\ N > 0
            /\ Len(Student') = N
            /\ \A i \in 1..N :
                 /\ Student'[i].student_id = String(FirstPresent(rows[i], IdAliases))
                 /\ Student'[i].student_name = String(FirstPresent(rows[i], NameAliases))
                 /\ Num(Student'[i].total_marks) = parseFloat(FirstPresent(rows[i], TotalAliases))
                 /\ Num(Student'[i].marks_obtained) = parseFloat(FirstPresent(rows[i], ObtainedAliases))
                 /\ \A j \in 1..Len(Student) : Student'[i].id # Student[j].id
            /\ \A i, j \in 1..N : i # j => Student'[i].student_id # Student'[j].student_id
            /\ Len(UploadHistory') = Len(UploadHistory) + 1
            /\ SubSeq(UploadHistory', 1, Len(UploadHistory)) = UploadHistory
            /\ UploadHistory'[Len(UploadHistory')].students_count = N
            /\ UploadHistory'[Len(UploadHistory')].filename = req.file.originalname
            /\ res'.studentsCount = N
            /\ res'.filename = req.file.originalname]_vars

C2_Witness ==
  /\ req.op = "upload"
  /\ res.status = 200
  /\ Len(UploadHistory) = 2
  /\ UploadHistory[1].students_count = 2
  /\ UploadHistory[2].students_count = 1
  /\ UploadHistory[2].filename = "marks.csv"
  /\ Len(Student) = 1

\* ------------------------------------------------------------------------
\* C3: the percentage of every persisted record is its marks_obtained over
\* its total_marks, times 100, rounded to two decimals, whatever percentage
\* a client sent along.
\* ------------------------------------------------------------------------
C3_PercentageDerived ==
  \A j \in 1..Len(Student) :
    Rounded2(Student[j].percentage, Student[j].marks_obtained, Student[j].total_marks)

C3_Witness ==
  /\ req.op = "update"
  /\ req.body.percentage = Num(99)
  /\ res.status = 200
  /\ \E j \in 1..Len(Student) :
       /\ Student[j].id = req.body.id.oid
       /\ Student[j].total_marks = 80
       /\ Student[j].percentage = 7500
  /\ \E j \in 1..Len(Student) : Student[j].percentage = 6667


\* ------------------------------------------------------------------------
\* C4: a row with the four fields, a non-empty id and name, total > 0 and
\* obtained >= 0, obtained = 0 included, is accepted and its record has
\* percentage = round(obtained / total * 100, 2).
\* ------------------------------------------------------------------------
C4_WellFormedRowAccepted ==
  (/\ req.op = "upload" /\ res # NoRes
   /\ Len(req.file.rows) = 1
   /\ WellFormedRow(req.file.rows[1]))
  => /\ res.error \notin RowErrors
     /\ res.status = 200 =>
          /\ Len(Student) = 1
          /\ Student[1].total_marks = NumberOf(FirstPresent(req.file.rows[1], TotalAliases))
          /\ Student[1].marks_obtained = NumberOf(FirstPresent(req.file.rows[1], ObtainedAliases))
          /\ Rounded2(Student[1].percentage, Student[1].marks_obtained, Student[1].total_marks)

\* ------------------------------------------------------------------------
\* C5: the aliases of a field are interchangeable, and of several aliases
\* of one field the first in the documented order gives the value: a row
\* fares as the same row with every field under its first alias does.
\* ------------------------------------------------------------------------
C5_AliasesInterchangeable ==
  (req.op = "upload" /\ res # NoRes /\ Len(req.file.rows) = 1)
  => LET canonical == ProcessRow(Canonical(req.file.rows[1]), 0)
     IN  /\ res.error \in RowErrors <=> ~canonical.ok
         /\ res.status = 200 => Fields(Student[1]) = canonical.student

\* ------------------------------------------------------------------------
\* C6: an upload whose file has no row is answered 400 and nothing is
\* cleared, inserted or appended.
\* ------------------------------------------------------------------------
C6_EmptyFileRejected ==
  [][(Pending("upload") /\ req.file.kind = "sheet" /\ req.file.rows = <<>>)
     => /\ res'.status = 400
        /\ Student' = Student
        /\ UploadHistory' = UploadHistory
        /\ clock' = clock]_vars

C6_Witness ==
  /\ req.op = "upload"
  /\ req.file.kind = "sheet"
  /\ req.file.rows = <<>>
  /\ res.status = 400
  /\ Student # <<>>
  /\ UploadHistory # <<>>

\* ------------------------------------------------------------------------
\* C7: when the rows pass validation and the bulk insert fails, the answer
\* is 500 and the student collection is empty afterwards.
\* ------------------------------------------------------------------------
C7_EmptyAfterFailedInsert ==
  [][(Pending("upload") /\ res'.error \in {"insertMany failed", "E11000 duplicate key"})
     => /\ res'.status = 500
        /\ Student' = <<>>]_vars

\* ------------------------------------------------------------------------
\* C8: the upload history grows by one entry exactly in the step that
\* answers an upload with success, which has cleared the collection and
\* inserted the whole batch; every other step leaves it as it is.
\* ------------------------------------------------------------------------
C8_HistoryOnlyOnSuccess ==
  [][IF Pending("upload") /\ res'.status = 200
     THEN /\ Len(UploadHistory') = Len(UploadHistory) + 1
          /\ SubSeq(UploadHistory', 1, Len(UploadHistory)) = UploadHistory
          /\ Len(Student') = Len(req.file.rows)
          /\ \A j \in 1..Len(Student') : Student'[j].created_at = clock'
     ELSE UploadHistory' = UploadHistory]_vars

C8_Witness ==
  /\ req.op = "upload"
  /\ res.status = 500
  /\ res.error \in {"insertMany failed", "E11000 duplicate key", "save failed"}
  /\ clock = 2
  /\ Len(UploadHistory) = 1

\* ------------------------------------------------------------------------
\* C9: an update of an existing record with a valid name, total and
\* obtained returns the record with the three replaced and the percentage
\* recomputed (total 80, obtained 60: 75.00); its student_id, its
\* created_at, the other records and the upload history stay.
\* ------------------------------------------------------------------------
C9_UpdateFrame ==
  [][(Pending("update") /\ Target # 0 /\ ValidBody(req.body))
     => LET old == Student[Target]
            new == Student'[Target]
        IN  /\ res'.status = 200
            /\ res'.body = <<new>>
            /\ new.student_name = req.body.student_name.s
            /\ new.total_marks = NumberOf(req.body.total_marks)
            /\ new.marks_obtained = NumberOf(req.body.marks_obtained)
            /\ Rounded2(new.percentage, new.marks_obtained, new.total_marks)
            /\ (new.total_marks = 80 /\ new.marks_obtained = 60) => new.percentage = 7500
            /\ new.id = old.id
            /\ new.student_id = old.student_id
            /\ new.created_at = old.created_at
            /\ Len(Student') = Len(Student)
            /\ \A k \in 1..Len(Student) : k # Target => Student'[k] = Student[k]
            /\ UploadHistory' = UploadHistory]_vars

C9_Witness ==
  /\ req.op = "update"
  /\ res.status = 200
  /\ ValidBody(req.body)
  /\ Len(Student) = 2
  /\ Student[2].id = req.body.id.oid
  /\ Student[2].percentage = 7500
  /\ Student[2].student_name = <<"B">>
  /\ Student[1].student_name = <<"A">>

\* ------------------------------------------------------------------------
\* C10: an update with a valid body whose id matches no persisted record
\* is answered 404, creates no record and leaves the students and the
\* upload history as they were.
\* ------------------------------------------------------------------------
C10_UnknownIdNotFound ==
  [][(/\ Pending("update") /\ req.body.id.t # "u"
      /\ ValidBody(req.body) /\ Target = 0)
     => /\ res'.status = 404
        /\ Student' = Student
        /\ UploadHistory' = UploadHistory]_vars

\* ------------------------------------------------------------------------
\* C11: a delete whose id is that of a persisted record removes that
\* record and no other, so that no later listing has it, and leaves the
\* upload history as it was; a delete whose id is that of no persisted
\* record, the id of a record deleted before among them, is answered 404
\* and changes nothing.
\* ------------------------------------------------------------------------
C11_DeleteExactlyTarget ==
  [][(Pending("delete") /\ req.body.id.t # "u")
     => IF Target # 0
        THEN /\ res'.status = 200
             /\ Student' = SubSeq(Student, 1, Target - 1)
                            \o SubSeq(Student, Target + 1, Len(Student))
             /\ \A listed \in find(Student') :
                  \A j \in 1..Len(listed) : listed[j].id # req.body.id.oid
             /\ UploadHistory' = UploadHistory
        ELSE /\ res'.status = 404
             /\ Student' = Student
             /\ UploadHistory' = UploadHistory]_vars

\* ------------------------------------------------------------------------
\* C12: the listing of the upload history returns min(10, n) of the n
\* stored entries, the ones appended last, the latest first, in strictly
\* descending order of uploaded_at.
\* ------------------------------------------------------------------------
C12_HistoryListing ==
  (req.op = "history" /\ res # NoRes)
    => LET n     == Len(UploadHistory)
           shown == res.history
       IN  /\ res.status = 200
           /\ Len(shown) = IF n < 10 THEN n ELSE 10
           /\ \A i \in 1..Len(shown) : shown[i] = UploadHistory[n - i + 1]
           /\ \A i \in 1..(Len(shown) - 1) :
                shown[i].uploaded_at > shown[i + 1].uploaded_at

C12_Witness ==
  /\ req.op = "history"
  /\ Len(UploadHistory) = 11
  /\ Len(res.history) = 10
  /\ res.history[1].uploaded_at = 11
  /\ res.history[10].uploaded_at = 2

\* ------------------------------------------------------------------------
\* C13: the upload history is append-only: over every step of every
\* request (upload, update, delete, list, stats, history) the stored
\* sequence of entries is a prefix of the sequence after the step, the
\* entries past the 10 that are listed included.
\* ------------------------------------------------------------------------
C13_HistoryAppendOnly ==
  [][/\ Len(UploadHistory') >= Len(UploadHistory)
     /\ SubSeq(UploadHistory', 1, Len(UploadHistory)) = UploadHistory]_vars

C13_Witness ==
  /\ req.op = "delete"
  /\ res.status = 200
  /\ Len(UploadHistory) = 11
  /\ UploadHistory[1].uploaded_at = 1
  /\ Student = <<>>

\* ------------------------------------------------------------------------
\* C14: an upload with no file, with an empty sheet or with a row that
\* the handler rejects (a field missing, marks invalid) is answered 400,
\* and an upload is answered 500 only when a call of the store
\* (deleteMany, insertMany, save) failed.
\* ------------------------------------------------------------------------
StoreErrors ==
  {"deleteMany failed", "insertMany failed", "E11000 duplicate key", "save failed"}

C14_UploadStatus ==
  [][Pending("upload")
     => /\ (\/ req.file.kind = "none"
            \/ /\ req.file.kind = "sheet"
               /\ \/ req.file.rows = <<>>
                  \/ ~ProcessRows(req.file.rows).ok)
           => res'.status = 400
        /\ res'.status = 500 => res'.error \in StoreErrors]_vars

\* ------------------------------------------------------------------------
\* C15: in every reachable state no two persisted records have the same
\* student_id, and every persisted record has a non-empty student_id and
\* a non-empty student_name.
\* ------------------------------------------------------------------------
C15_UniqueNonEmpty ==
  /\ \A i, j \in 1..Len(Student) :
       i # j => Student[i].student_id # Student[j].student_id
  /\ \A j \in 1..Len(Student) :
       Student[j].student_id # <<>> /\ Student[j].student_name # <<>>

C15_Witness ==
  /\ req.op = "upload"
  /\ Len(req.file.rows) = 2
  /\ ProcessRows(req.file.rows).ok
  /\ res.status = 500
  /\ res.error = "E11000 duplicate key"
  /\ Len(Student) = 1

\* ------------------------------------------------------------------------
\* C16: every persisted record has total_marks > 0: neither an upload nor
\* an update persists a total that is 0 or below.
\* ------------------------------------------------------------------------
C16_TotalPositive == \A j \in 1..Len(Student) : Student[j].total_marks > 0

C16_Witness ==
  /\ req.op = "update"
  /\ req.body.total_marks = Num(-3)
  /\ Target # 0
  /\ res.status = 400
  /\ res.error = "Invalid marks data"

\* ------------------------------------------------------------------------
\* C17: every persisted record has marks_obtained >= 0: neither an upload
\* row nor an update with obtained marks below 0 is persisted.
\* ------------------------------------------------------------------------
C17_ObtainedNotNegative ==
  \A j \in 1..Len(Student) : Student[j].marks_obtained >= 0

\* ------------------------------------------------------------------------
\* C20: an update with no id, with no name, total or obtained, with marks
\* from which no number can be read or with a total of 0 or below is
\* answered 400 and leaves every record as it was; the answer is 404 only
\* when none of these holds and the id is that of no persisted record.
\* ------------------------------------------------------------------------
\* No number can be read from the value.
NoNumber(v) ==
  \/ v.t = "nan"
  \/ /\ v.t = "s"
     /\ LET digits == IF v.s # <<>> /\ Head(v.s) = "-" THEN Tail(v.s) ELSE v.s
        IN  digits = <<>> \/ ~IsDigit(digits[1])

InvalidUpdate(b) ==
  \/ b.id.t = "u"
  \/ b.student_name = Undefined \/ b.student_name = Str(<<>>)
  \/ b.total_marks = Undefined \/ b.marks_obtained = Undefined
  \/ NoNumber(b.total_marks) \/ NoNumber(b.marks_obtained)
  \/ parseFloat(b.total_marks).n <= 0

Records(coll) == {Fields(coll[j]) : j \in 1..Len(coll)}

C18_ReplacementAtomic ==
  [][\A s, u \in Slots :
       (/\ tasks[s].req.op = "list"
        /\ tasks[s].pc = "received"
        /\ tasks'[s].pc = "done"
        /\ tasks[u].req.op = "upload"
        /\ tasks[u].pc \in {"insertMany", "save"}
        /\ insertMany(<<>>, tasks[u].students, 0, 1).ok)
       => \/ Records(tasks'[s].res.body) = Records(tasks[u].before)
          \/ Records(tasks'[s].res.body)
               = {tasks[u].students[j] : j \in 1..Len(tasks[u].students)}]_vars

\* ------------------------------------------------------------------------
\* C19: when two uploads that overlap have both answered success, the
\* collection is the batch of the one whose insertMany ran last, neither
\* the union nor a mixture of the two, and each of the two has one entry
\* of its own in the upload history.
\* ------------------------------------------------------------------------
C19_LastWriterWins ==
  (\A s \in Slots : /\ tasks[s].req.op = "upload"
                    /\ tasks[s].pc = "done"
                    /\ tasks[s].res.status = 200)
    => LET last == CHOOSE s \in Slots :
                     \A u \in Slots : tasks[u].insertedAt <= tasks[s].insertedAt
       IN  /\ [j \in 1..Len(Student) |-> Fields(Student[j])] = tasks[last].students
           /\ \A s \in Slots :
                /\ tasks[s].entry \in 1..Len(UploadHistory)
                /\ UploadHistory[tasks[s].entry].students_count = Len(tasks[s].students)
           /\ \A s, u \in Slots : s # u => tasks[s].entry # tasks[u].entry

\* ------------------------------------------------------------------------
\* C21: the upload endpoint takes the media types of .xlsx and of .csv
\* only: an upload that declares another media type is answered with an
\* error before the handler of the route runs, and the students and the
\* upload history stay as they were.
\* ------------------------------------------------------------------------
C21_OnlyXlsxAndCsv ==
  [][(Idle /\ req'.op = "upload" /\ req'.file.kind # "none")
     => IF req'.file.mimetype \in {Xlsx, "text/csv"}
        THEN res' = NoRes
        ELSE /\ res'.status >= 400
             /\ Student' = Student
             /\ UploadHistory' = UploadHistory]_vars

\* C21 as amended: the upload endpoint of src/index.js takes the media
\* types of .xlsx, of .csv and of .xls (application/vnd.ms-excel) only:
\* an upload that declares another media type is answered with an error
\* before the handler of the route runs, and the students and the upload
\* history stay as they were.
C21_OnlyListedTypes ==
  [][(Idle /\ req'.op = "upload" /\ req'.file.kind # "none")
     => IF req'.file.mimetype \in {Xlsx, "text/csv", "application/vnd.ms-excel"}
        THEN res' = NoRes
        ELSE /\ res'.status >= 400
             /\ Student' = Student
             /\ UploadHistory' = UploadHistory]_vars

C21_Witness ==
  /\ req.op = "upload"
  /\ req.file.mimetype = "application/pdf"
  /\ res.status = 500
  /\ res.error = "Internal server error"
  /\ Len(Student) = 2
  /\ Len(UploadHistory) = 1

\* ------------------------------------------------------------------------
\* C26: the rows are processed in their order and the first failure ends
\* the processing: of a batch with several rows that fail, the answer
\* names the position, counted from 1, of the first of them and gives the
\* error of that row, whatever the rows after it are.
\* ------------------------------------------------------------------------
C26_FirstFailureReported ==
  [][(/\ Pending("upload")
      /\ req.file.kind = "sheet"
      /\ \E i \in 1..Len(req.file.rows) : ~ProcessRow(req.file.rows[i], i - 1).ok)
     => \E k \in 1..Len(req.file.rows) :
          /\ ~ProcessRow(req.file.rows[k], k - 1).ok
          /\ \A j \in 1..(k - 1) : ProcessRow(req.file.rows[j], j - 1).ok
          /\ res'.status >= 400
          /\ res'.row = k
          /\ res'.error = ProcessRow(req.file.rows[k], k - 1).error]_vars

C26_Witness ==
  /\ req.op = "upload"
  /\ Len(req.file.rows) = 2
  /\ ProcessRow(req.file.rows[1], 0).error = "Missing required data"
  /\ ProcessRow(req.file.rows[2], 1).error = "Invalid marks data"
  /\ res.row = 1
  /\ res.error = "Missing required data"

\* ------------------------------------------------------------------------
\* C27: an upload is idempotent on the students: after an upload that
\* succeeds the records are those of its batch (student_id, student_name,
\* total_marks, marks_obtained, percentage) whatever was persisted before,
\* so that the same batch uploaded again leaves the same records, and
\* each upload adds one entry to the upload history.
\* ------------------------------------------------------------------------
\* The fields of the records of a collection, in its order.
FieldsOf(coll) == [j \in 1..Len(coll) |-> Fields(coll[j])]

C27_UploadIdempotent ==
  [][(Pending("upload") /\ res'.status = 200)
     => LET batch == ProcessRows(req.file.rows).students
        IN  /\ FieldsOf(Student') = batch
            /\ FieldsOf(Student) = batch => FieldsOf(Student') = FieldsOf(Student)
            /\ Len(UploadHistory') = Len(UploadHistory) + 1]_vars

C27_Witness ==
  /\ req.op = "upload"
  /\ res.status = 200
  /\ clock = 2
  /\ Len(req.file.rows) = 2
  /\ Len(UploadHistory) = 2
  /\ \A k \in 1..2 : /\ UploadHistory[k].students_count = 2
                      /\ UploadHistory[k].filename = req.file.originalname
  /\ FieldsOf(Student) = ProcessRows(req.file.rows).students

\* ------------------------------------------------------------------------
\* C28: every answer of GET /api/stats is consistent in itself, also when
\* an upload or a delete is served between its queries: passCount is at
\* most totalStudents, failCount is not below 0, passCount + failCount is
\* totalStudents, and topPerformer is null exactly when totalStudents is 0.
\* ------------------------------------------------------------------------
C28_StatsConsistent ==
  \A s \in Slots :
    (tasks[s].req.op = "stats" /\ tasks[s].pc = "done")
      => LET stats == tasks[s].res.stats
         IN  /\ stats.passCount <= stats.totalStudents
             /\ stats.failCount >= 0
             /\ stats.passCount + stats.failCount = stats.totalStudents
             /\ (stats.topPerformer = <<>>) <=> (stats.totalStudents = 0)

\* ------------------------------------------------------------------------
\* C23: in the upload handlers that map the rows without validation
\* (src/server.js, the first handler of src/index.js), a batch with a row
\* that cannot become a valid record (no Student_ID, no Student_Name,
\* both marks 0) is found out before Student.deleteMany is called: the
\* upload fails and the persisted students are what they were.
\* ------------------------------------------------------------------------
C23_UnvalidatedRowDetectedFirst ==
  [][(/\ Pending("upload")
      /\ req.file.kind = "sheet"
      /\ \E i \in 1..Len(req.file.rows) : ~ValidStudent(ServerMapRow(req.file.rows[i])))
     => /\ res'.status >= 400
        /\ Student' = Student]_vars

\* ------------------------------------------------------------------------
\* C24: in the upload handlers of src/server.js and src/unnamed/part_001
\* an upload whose file decodes to no row fails: the students are not
\* cleared and no entry with students_count 0 is added to the history.
\* ------------------------------------------------------------------------
C24_EmptyFileFails ==
  [][(Pending("upload") /\ req.file.kind = "sheet" /\ req.file.rows = <<>>)
     => /\ res'.status >= 400
        /\ Student' = Student
        /\ UploadHistory' = UploadHistory]_vars

\* ------------------------------------------------------------------------
\* C22: in src/unnamed/part_001 an upload row with Marks_Obtained above
\* Total_Marks aborts the batch with 400 before anything is persisted and
\* an update with marks_obtained above total_marks is rejected with 400,
\* so that every persisted record has marks_obtained <= total_marks.
\* ------------------------------------------------------------------------
C22_ObtainedWithinTotal ==
  \A i \in 1..Len(Student) : Student[i].marks_obtained <= Student[i].total_marks

\* ------------------------------------------------------------------------
\* C25: in src/unnamed/part_001 a batch with a row whose Total_Marks is
\* zero or negative is rejected as an invalid row before any call of the
\* store, and the persisted students stay as they were.
\* ------------------------------------------------------------------------
C25_TotalNotPositiveRejected ==
  [][(/\ Pending("upload")
      /\ req.file.kind = "sheet"
      /\ \E i \in 1..Len(req.file.rows) :
           LET total == Number(req.file.rows[i]["Total_Marks"])
           IN  total.t = "n" /\ total.n <= 0)
     => /\ res'.status = 400
        /\ Student' = Student
        /\ UploadHistory' = UploadHistory]_vars

\* ------------------------------------------------------------------------
\* C30: in src/unnamed/part_001 every record persisted by a successful
\* upload has a percentage from 0 to 100, whatever batch of numeric rows
\* was accepted, rows with zero or negative marks included.
\* ------------------------------------------------------------------------
C30_UploadPercentageInRange ==
  [][(Pending("upload") /\ res'.status = 200)
     => \A i \in 1..Len(Student') :
          /\ Student'[i].percentage.t = "n"
          /\ Student'[i].percentage.n >= 0
          /\ Student'[i].percentage.n <= 100 * 100]_vars

\* ------------------------------------------------------------------------
\* C29: every edit and delete the dashboard submits (PUT and DELETE
\* /api/students/:id with the _id of a persisted student) is served by a
\* matching route of the final src/index.js, which updates or removes
\* the record; the dashboard then fetches the students again and, after
\* an edit, closes the modal.
\* ------------------------------------------------------------------------
C29_DashboardRequestsServed ==
  [][(/\ req.op \in {PutStudent, DeleteStudentById}
      /\ res = NoRes
      /\ \E i \in 1..Len(Student) : Student[i].id = req.body.id.oid)
     => /\ ok(res')
        /\ req.op = DeleteStudentById
             => \A i \in 1..Len(Student') : Student'[i].id # req.body.id.oid]_vars

====
